---- MODULE Spec2Model ----
(***************************************************************************)
(* The Home page controller of src/pages/Home.tsx: the React state         *)
(* (plots, loading, viewMode, selectedPlot), the asynchronous fetchPlots   *)
(* with the Supabase query it builds from the SearchFilters, and the       *)
(* handlers of the view toggle and of the plot selection.                  *)
(*                                                                         *)
(* JavaScript runs every handler to completion; fetchPlots is an async     *)
(* function, so its body runs synchronously up to the await of line 67     *)
(* and resumes in a later task when the request settles.  pc records       *)
(* where the one synchronous section that can fail part-way (lines 22-67)  *)
(* stands: setLoading(true) has run, the query is being built.             *)
(***************************************************************************)
EXTENDS Integers, Sequences, FiniteSets, TLC

VARIABLES
    plots,          \* useState<Plot[]>([])            line 11
    loading,        \* useState(true)                  line 12
    viewMode,       \* useState<'grid'|'map'>('grid')  line 13
    selectedPlot,   \* useState<Plot|null>(null)       line 14
    mounted,        \* the effect of lines 16-18 has run
    pc,             \* "idle", or "build" inside fetchPlots between line 22 and line 67
    arg,            \* the filters argument of the fetchPlots call being executed
    calls,          \* number of fetchPlots calls made so far; a call's number is its id
    inflight,       \* ids of the calls whose request was issued and has not settled
    hung,           \* the in-flight requests the transport will never answer
    done,           \* ids of the calls that have run their finally block
    loaded,         \* ids of the calls that have run setPlots (line 74)
    unhandled,      \* an exception has left fetchPlots
    ev,             \* history: the step just taken
    sent,           \* history: the filters and the query handed to the store by the step just taken
    got,            \* history: the response delivered by the step just taken
    prev            \* history: the controller state before the step just taken

vars == <<plots, loading, viewMode, selectedPlot, mounted, pc, arg, calls,
          inflight, hung, done, loaded, unhandled, ev, sent, got, prev>>

(***************************************************************************)
(* Bounds and program constants                                            *)
(***************************************************************************)
MaxCalls == 2

PriceCeiling == 10000000

AreaCeiling == 10000

NoPlot == 0

PlotIds == {1, 2}

\* Result sets the store can return, in the store's order (created_at descending).
Datasets == {<<>>, <<1>>, <<2, 1>>}

ViewModes == {"grid", "map"}

(***************************************************************************)
(* SearchFilters and the query builder                                     *)
(***************************************************************************)
NoFilters ==
    [present |-> FALSE, search |-> "", minPrice |-> 0, maxPrice |-> 0,
     minArea |-> 0, maxArea |-> 0, councilId |-> "", usageType |-> ""]

FilterInputs ==
    [present : {TRUE},
     search : {"", "beach"},
     minPrice : {0, 1},
     maxPrice : {PriceCeiling - 1, PriceCeiling, PriceCeiling + 1},
     minArea : {0, 1},
     maxArea : {AreaCeiling - 1, AreaCeiling, AreaCeiling + 1},
     councilId : {"", "c1"},
     usageType : {"", "residential"}]

Pred(op, col, num, str) == [op |-> op, col |-> col, num |-> num, str |-> str]

Order(col, asc) == [col |-> col, ascending |-> asc]

NoQuery == [table |-> "", preds |-> <<>>, order |-> Order("", TRUE)]

\* supabase.from('plots').select(...).eq('status', 'available')
BaseQuery ==
    [table |-> "plots", preds |-> <<Pred("eq", "status", 0, "available")>>,
     order |-> Order("", TRUE)]

Where(q, p) == [q EXCEPT !.preds = Append(@, p)]

OrderBy(q, col, asc) == [q EXCEPT !.order = Order(col, asc)]

\* The conditions of lines 44-62; a string is truthy when it is not empty.
\* Variant: the search is tested for presence (!== undefined), not for truthiness.
HasSearch_Defined(f) == TRUE

HasSearch(f) == f.search # ""

HasMinPrice(f) == f.minPrice > 0

\* Variant: the ceiling itself is sent as a bound (<= for <).
HasMaxPrice_Inclusive(f) == f.maxPrice <= PriceCeiling

HasMaxPrice(f) == f.maxPrice < PriceCeiling

HasMinArea(f) == f.minArea > 0

HasMaxArea(f) == f.maxArea < AreaCeiling

HasCouncil(f) == f.councilId # ""

HasUsage(f) == f.usageType # ""

ApplyFilters(q, f) ==
    LET q1 == IF HasSearch(f) THEN Where(q, Pred("or_ilike", "title,description", 0, f.search)) ELSE q
        q2 == IF HasMinPrice(f) THEN Where(q1, Pred("gte", "price", f.minPrice, "")) ELSE q1
        q3 == IF HasMaxPrice(f) THEN Where(q2, Pred("lte", "price", f.maxPrice, "")) ELSE q2
        q4 == IF HasMinArea(f) THEN Where(q3, Pred("gte", "area_sqm", f.minArea, "")) ELSE q3
        q5 == IF HasMaxArea(f) THEN Where(q4, Pred("lte", "area_sqm", f.maxArea, "")) ELSE q4
        q6 == IF HasCouncil(f) THEN Where(q5, Pred("eq", "council_id", 0, f.councilId)) ELSE q5
        q7 == IF HasUsage(f) THEN Where(q6, Pred("eq", "usage_type", 0, f.usageType)) ELSE q6
    IN  q7

BuildQuery(f) ==
    OrderBy(IF f.present THEN ApplyFilters(BaseQuery, f) ELSE BaseQuery,
            "created_at", FALSE)

(***************************************************************************)
(* Responses of the store                                                  *)
(***************************************************************************)
Resp(settle, error, hasData, rows) ==
    [settle |-> settle, error |-> error, hasData |-> hasData, rows |-> rows]

NoResp == Resp("none", FALSE, FALSE, <<>>)

Responses ==
    {Resp("resolved", FALSE, TRUE, d) : d \in Datasets}
        \cup {Resp("resolved", FALSE, FALSE, <<>>),     \* { data: null, error: null }
              Resp("resolved", TRUE, FALSE, <<>>),      \* { data: null, error }
              Resp("rejected", FALSE, FALSE, <<>>)}     \* the awaited promise rejects

Succeeded(r) == r.settle = "resolved" /\ ~r.error

\* data || []
OrEmpty(r) == IF r.hasData THEN r.rows ELSE <<>>

\* Variant: a failed load clears the list.
PlotsAfter_ClearOnFailure(r, old) == IF Succeeded(r) THEN OrEmpty(r) ELSE <<>>

\* Variant: the rows of a new load are appended to the rows already shown.
PlotsAfter_Merge(r, old) == IF Succeeded(r) THEN old \o OrEmpty(r) ELSE old

\* Lines 67-76: setPlots runs only when the await returns without error.
PlotsAfter(r, old) == IF Succeeded(r) THEN OrEmpty(r) ELSE old

\* Variant: setLoading(false) follows setPlots instead of sitting in a finally block.
LoadingAfter_OnSuccessOnly(r, old) == IF Succeeded(r) THEN FALSE ELSE old

\* Line 78: the finally block runs on every path out of the try.
LoadingAfter(r, old) == FALSE

\* Lines 75-77: the catch clause takes every exception of the try block.
Escapes(r) == FALSE

(***************************************************************************)
(* History records                                                         *)
(***************************************************************************)
Event(kind, id, mode) == [kind |-> kind, id |-> id, mode |-> mode]

Sent(f, q) == [filters |-> f, query |-> q]

NoSent == Sent(NoFilters, NoQuery)

Ctrl ==
    [plots |-> plots, loading |-> loading, viewMode |-> viewMode,
     selectedPlot |-> selectedPlot, inflight |-> inflight]

NoSnap ==
    [plots |-> <<>>, loading |-> FALSE, viewMode |-> "", selectedPlot |-> NoPlot,
     inflight |-> {}]

Range(s) == {s[i] : i \in 1..Len(s)}

(***************************************************************************)
(* Initial state: the first render                                         *)
(***************************************************************************)
\* Variant: useState(false) for loading.
Init_Idle ==
    /\ plots = <<>>
    /\ loading = FALSE
    /\ viewMode = "grid"
    /\ selectedPlot = NoPlot
    /\ mounted = FALSE
    /\ pc = "idle"
    /\ arg = NoFilters
    /\ calls = 0
    /\ inflight = {}
    /\ hung = {}
    /\ done = {}
    /\ loaded = {}
    /\ unhandled = FALSE
    /\ ev = Event("init", 0, "")
    /\ sent = NoSent
    /\ got = NoResp
    /\ prev = NoSnap

Init ==
    /\ plots = <<>>
    /\ loading = TRUE
    /\ viewMode = "grid"
    /\ selectedPlot = NoPlot
    /\ mounted = FALSE
    /\ pc = "idle"
    /\ arg = NoFilters
    /\ calls = 0
    /\ inflight = {}
    /\ hung = {}
    /\ done = {}
    /\ loaded = {}
    /\ unhandled = FALSE
    /\ ev = Event("init", 0, "")
    /\ sent = NoSent
    /\ got = NoResp
    /\ prev = NoSnap

(***************************************************************************)
(* fetchPlots                                                              *)
(***************************************************************************)
\* Line 22: the call enters the try block and sets loading.
FetchPlotsBegin(f) ==
    /\ pc = "idle"
    /\ calls < MaxCalls
    /\ loading' = TRUE
    /\ pc' = "build"
    /\ arg' = f
    /\ calls' = calls + 1
    /\ ev' = Event("call", calls + 1, "")
    /\ sent' = NoSent
    /\ got' = NoResp
    /\ prev' = NoSnap
    /\ UNCHANGED <<plots, viewMode, selectedPlot, inflight, hung, done, loaded, unhandled>>

\* Lines 16-18: the mount effect calls fetchPlots() without filters.
Mount ==
    /\ ~mounted
    /\ mounted' = TRUE
    /\ FetchPlotsBegin(NoFilters)

\* Lines 82-84: the filter panel hands over a fully populated SearchFilters.
HandleFiltersChange ==
    /\ mounted
    /\ UNCHANGED mounted
    /\ \E f \in FilterInputs : FetchPlotsBegin(f)

\* Lines 23-67: the query is built and handed to the store; the function
\* suspends at the await.  The transport may or may not ever answer.
IssueRequest ==
    /\ pc = "build"
    /\ pc' = "idle"
    /\ arg' = NoFilters
    /\ inflight' = inflight \cup {calls}
    /\ \E h \in BOOLEAN : hung' = IF h THEN hung \cup {calls} ELSE hung
    /\ ev' = Event("issue", calls, "")
    /\ sent' = Sent(arg, BuildQuery(arg))
    /\ got' = NoResp
    /\ prev' = NoSnap
    /\ UNCHANGED <<plots, loading, viewMode, selectedPlot, mounted, calls, done, loaded, unhandled>>

\* Lines 23-67 throw before the await: catch (75-77), then finally (78).
BuildThrows ==
    /\ pc = "build"
    /\ pc' = "idle"
    /\ arg' = NoFilters
    /\ LET r == Resp("rejected", FALSE, FALSE, <<>>)
       IN  /\ plots' = PlotsAfter(r, plots)
           /\ loading' = LoadingAfter(r, loading)
           /\ unhandled' = (unhandled \/ Escapes(r))
    /\ done' = done \cup {calls}
    /\ UNCHANGED loaded
    /\ ev' = Event("throw", calls, "")
    /\ sent' = NoSent
    /\ got' = NoResp
    /\ prev' = Ctrl
    /\ UNCHANGED <<viewMode, selectedPlot, mounted, calls, inflight, hung>>

\* Variant: a response is applied only when its call is the most recent one.
Settle_LatestOnly(id, r) ==
    /\ pc = "idle"
    /\ id \in inflight \ hung
    /\ plots' = IF id = calls THEN PlotsAfter(r, plots) ELSE plots
    /\ loading' = IF id = calls THEN LoadingAfter(r, loading) ELSE loading
    /\ unhandled' = (unhandled \/ Escapes(r))
    /\ inflight' = inflight \ {id}
    /\ done' = done \cup {id}
    /\ loaded' = IF Succeeded(r) /\ id = calls THEN loaded \cup {id} ELSE loaded
    /\ ev' = Event("settle", id, "")
    /\ sent' = NoSent
    /\ got' = r
    /\ prev' = Ctrl
    /\ UNCHANGED <<viewMode, selectedPlot, mounted, pc, arg, calls, hung>>

\* Lines 67-79: the request of call id settles and fetchPlots resumes.
Settle(id, r) ==
    /\ pc = "idle"
    /\ id \in inflight \ hung
    /\ plots' = PlotsAfter(r, plots)
    /\ loading' = LoadingAfter(r, loading)
    /\ unhandled' = (unhandled \/ Escapes(r))
    /\ inflight' = inflight \ {id}
    /\ done' = done \cup {id}
    /\ loaded' = IF Succeeded(r) THEN loaded \cup {id} ELSE loaded
    /\ ev' = Event("settle", id, "")
    /\ sent' = NoSent
    /\ got' = r
    /\ prev' = Ctrl
    /\ UNCHANGED <<viewMode, selectedPlot, mounted, pc, arg, calls, hung>>

RequestSettles == \E id \in inflight, r \in Responses : Settle(id, r)

(***************************************************************************)
(* View toggle and selection                                               *)
(***************************************************************************)
\* Variant: switching the view also puts the page back into its loading state.
SetViewMode_Reload(m) ==
    /\ pc = "idle"
    /\ mounted
    /\ viewMode' = m
    /\ loading' = TRUE
    /\ ev' = Event("view", 0, m)
    /\ sent' = NoSent
    /\ got' = NoResp
    /\ prev' = Ctrl
    /\ UNCHANGED <<plots, selectedPlot, mounted, pc, arg, calls,
                   inflight, hung, done, loaded, unhandled>>

\* Lines 125 and 135: onClick={() => setViewMode(m)}
SetViewMode(m) ==
    /\ pc = "idle"
    /\ mounted
    /\ viewMode' = m
    /\ ev' = Event("view", 0, m)
    /\ sent' = NoSent
    /\ got' = NoResp
    /\ prev' = Ctrl
    /\ UNCHANGED <<plots, loading, selectedPlot, mounted, pc, arg, calls,
                   inflight, hung, done, loaded, unhandled>>

ToggleView == \E m \in ViewModes : SetViewMode(m)

SelectPlot(p) ==
    /\ pc = "idle"
    /\ mounted
    /\ p \in Range(plots)
    /\ selectedPlot' = p
    /\ ev' = Event("select", p, "")
    /\ sent' = NoSent
    /\ got' = NoResp
    /\ prev' = NoSnap
    /\ UNCHANGED <<plots, loading, viewMode, mounted, pc, arg, calls,
                   inflight, hung, done, loaded, unhandled>>

\* Lines 86-90: PlotGrid is rendered in grid mode.
HandleViewDetails == viewMode = "grid" /\ \E p \in PlotIds : SelectPlot(p)

\* Lines 92-94: MapView is rendered in map mode.
HandlePlotClick == viewMode = "map" /\ \E p \in PlotIds : SelectPlot(p)

Next ==
    \/ Mount
    \/ HandleFiltersChange
    \/ IssueRequest
    \/ BuildThrows
    \/ RequestSettles
    \/ ToggleView
    \/ HandleViewDetails
    \/ HandlePlotClick

Spec == Init /\ [][Next]_vars

(***************************************************************************)
(* Properties                                                              *)
(***************************************************************************)
Applied == ev.kind = "settle" /\ Succeeded(got)

HasPred(q, op, col) == \E i \in 1..Len(q.preds) : q.preds[i].op = op /\ q.preds[i].col = col

HasBound(q, op, col, n) ==
    \A i \in 1..Len(q.preds) :
        (q.preds[i].op = op /\ q.preds[i].col = col) => q.preds[i].num = n

StatusOnly ==
    [table |-> "plots",
     preds |-> <<[op |-> "eq", col |-> "status", num |-> 0, str |-> "available"]>>,
     order |-> [col |-> "created_at", ascending |-> FALSE]]

AllDefaults ==
    [present |-> TRUE, search |-> "", minPrice |-> 0, maxPrice |-> 10000000,
     minArea |-> 0, maxArea |-> 10000, councilId |-> "", usageType |-> ""]

\* C1: every fetchPlots call sets loading to true before its request is
\* issued (loading is already true in the state from which the request is
\* issued, and still true once it is in flight), and in the state right
\* after the call completes loading is false, whichever way it completes:
\* data, an error value, a rejected await or an exception while building.
C1_LoadingBracketsRequest ==
    /\ [][ev'.kind = "call" => loading']_vars
    /\ [][ev'.kind = "issue" => (loading /\ loading' /\ ev'.id \in inflight')]_vars
    /\ [](ev.kind \in {"settle", "throw"} => (~loading /\ ev.id \notin inflight))

C1_Witness ==
    /\ ev.kind = "settle"
    /\ got.settle = "resolved" /\ got.error
    /\ prev.loading
    /\ ~loading

\* C2: when a load fails (error value, rejected await, exception while
\* building) plots, viewMode and selectedPlot are what they were just before
\* the completion, plots is still empty if no load has succeeded yet, and no
\* exception leaves fetchPlots; of the controller state only loading changes.
C2_FailureKeepsState ==
    /\ [][(ev'.kind = "throw" \/ (ev'.kind = "settle" /\ ~Succeeded(got')))
            => (/\ plots' = plots
                /\ viewMode' = viewMode
                /\ selectedPlot' = selectedPlot
                /\ ~unhandled')]_vars
    /\ [](loaded = {} => plots = <<>>)
    /\ [](~unhandled)

C2_Witness ==
    /\ ev.kind = "settle"
    /\ got.settle = "resolved" /\ got.error
    /\ prev.plots = <<2, 1>>
    /\ plots = <<2, 1>>
    /\ prev.loading /\ ~loading
    /\ ~unhandled

\* C3: when a load succeeds plots is exactly the sequence the store returned,
\* in the store's order, nothing of the previous plots kept; a successful
\* response without rows (empty or absent data) gives the empty sequence,
\* leaves loading false and raises no error.
C3_SuccessReplaces ==
    Applied =>
        /\ plots = (IF got.hasData THEN got.rows ELSE <<>>)
        /\ ~loading
        /\ ~unhandled

C3_Witness ==
    /\ Applied
    /\ ~got.hasData
    /\ prev.plots = <<2, 1>>
    /\ plots = <<>>
    /\ ~loading

\* C4: for every SearchFilters the query carries price >= minPrice iff
\* minPrice > 0, price <= maxPrice iff maxPrice < 10,000,000, area >= minArea
\* iff minArea > 0 and area <= maxArea iff maxArea < 10,000, each whatever the
\* other fields are.
C4_BoundsIffNotSentinel ==
    (ev.kind = "issue" /\ sent.filters.present) =>
        LET f == sent.filters
            q == sent.query
        IN  /\ HasPred(q, "gte", "price") <=> f.minPrice > 0
            /\ HasPred(q, "lte", "price") <=> f.maxPrice < 10000000
            /\ HasPred(q, "gte", "area_sqm") <=> f.minArea > 0
            /\ HasPred(q, "lte", "area_sqm") <=> f.maxArea < 10000
            /\ HasBound(q, "gte", "price", f.minPrice)
            /\ HasBound(q, "lte", "price", f.maxPrice)
            /\ HasBound(q, "gte", "area_sqm", f.minArea)
            /\ HasBound(q, "lte", "area_sqm", f.maxArea)

C4_Witness ==
    /\ ev.kind = "issue"
    /\ sent.filters.present
    /\ sent.filters.minPrice = 0
    /\ sent.filters.maxPrice = 9999999
    /\ sent.filters.maxArea = 10000
    /\ ~HasPred(sent.query, "gte", "price")
    /\ HasPred(sent.query, "lte", "price")
    /\ ~HasPred(sent.query, "lte", "area_sqm")

\* C5: every query issued carries status = available and orders by creation
\* time descending; with every filter at its default the query has no other
\* predicate and equals the query issued without filters.
C5_StatusAndOrderAlways ==
    ev.kind = "issue" =>
        /\ sent.query.table = "plots"
        /\ sent.query.preds[1] = StatusOnly.preds[1]
        /\ sent.query.order = StatusOnly.order
        /\ (~sent.filters.present => sent.query = StatusOnly)
        /\ (sent.filters = AllDefaults => sent.query = StatusOnly)

C5_Witness ==
    /\ ev.kind = "issue"
    /\ sent.filters = AllDefaults
    /\ sent.query = StatusOnly

\* C6: responses are applied in completion order: when a call issued earlier
\* succeeds after a call issued later has already completed, plots is the
\* data of that last response and loading is false.
C6_CompletionOrderWins ==
    (Applied /\ \E j \in done : j > ev.id) =>
        /\ plots = OrEmpty(got)
        /\ ~loading

C6_Witness ==
    /\ Applied
    /\ ev.id = 1
    /\ 2 \in loaded
    /\ prev.inflight = {1}
    /\ prev.plots = <<2, 1>>
    /\ got.rows = <<1>>
    /\ plots = <<1>>
    /\ inflight = {}
    /\ ~loading

\* C7: a request that never resolves leaves loading true in every later
\* state, also when other calls are made and resolve meanwhile.
C7_HungKeepsLoading == hung # {} => loading

\* C8: setViewMode is enabled whenever the event loop can dispatch a handler,
\* also while a fetch is pending; it changes viewMode only, issues no request
\* and leaves plots, loading, selectedPlot and the in-flight requests alone;
\* map followed by grid gives back the state before the two calls.
C8_ViewModeOnly ==
    /\ []((mounted /\ pc = "idle") => \A m \in ViewModes : ENABLED SetViewMode(m))
    /\ [][ev'.kind = "view"
            => (/\ viewMode' = ev'.mode
                /\ UNCHANGED <<plots, loading, selectedPlot, inflight, hung, calls, pc>>)]_vars
    /\ [][(/\ ev.kind = "view" /\ ev.mode = "map" /\ prev.viewMode = "grid"
           /\ ev'.kind = "view" /\ ev'.mode = "grid")
            => Ctrl' = prev]_vars

C8_Witness ==
    /\ ev.kind = "view"
    /\ ev.mode = "grid"
    /\ prev.viewMode = "map"
    /\ inflight # {}
    /\ Ctrl = [prev EXCEPT !.viewMode = "grid"]

\* C9: the controller starts loading, with no plots, in grid mode and with
\* nothing selected; the mount makes exactly one call, without filters and
\* without a user action; and there is no terminal state: whenever a handler
\* can be dispatched a new call is enabled, and every call sets loading.
C9_StartsLoadingNeverTerminal ==
    /\ [](~mounted =>
            (/\ loading /\ plots = <<>> /\ viewMode = "grid" /\ selectedPlot = NoPlot
             /\ calls = 0 /\ inflight = {}
             /\ ENABLED Mount))
    /\ [][~mounted => (mounted' /\ calls' = 1 /\ arg' = NoFilters /\ loading')]_vars
    /\ [][mounted => mounted']_vars
    /\ []((ev.kind = "issue" /\ ev.id = 1) => sent.query = StatusOnly)
    /\ []((mounted /\ pc = "idle" /\ calls < MaxCalls) => ENABLED HandleFiltersChange)
    /\ [][calls' # calls => (calls' = calls + 1 /\ loading' /\ pc' = "build")]_vars

C9_Witness ==
    /\ mounted
    /\ ev.kind = "call"
    /\ ev.id = 2
    /\ loading
    /\ done = {1}
    /\ inflight = {}

\* C10: in every reachable state, if a request is in flight then loading is
\* true.
C10_InflightImpliesLoading == inflight # {} => loading

====
